---- MODULE Spec2Model ----
(***************************************************************************)
(* A model of rulsif.py: the RULSIF orchestrator (class RULSIF), its       *)
(* k-fold cross-validated grid search and its apply operation, together   *)
(* with the process-wide pseudo-random generator that train reseeds.       *)
(*                                                                         *)
(* Conventions.                                                            *)
(*  - A Python value that may be None is a tuple: <<>> is None and <<v>>    *)
(*    is the value v.                                                      *)
(*  - A float is an integer number of thousandths (1000 is 1.0).           *)
(*  - A sample matrix has one row; it is the sequence of its column        *)
(*    values, so Len(m) is m.shape[1].  Column indices are 0-based as in   *)
(*    the source; column j of m is m[j + 1].                               *)
(***************************************************************************)
EXTENDS Integers, Sequences, FiniteSets

VARIABLES
    alphaConstraint,    \* RULSIF.alphaConstraint   (float)
    sigmaWidth,         \* RULSIF.sigmaWidth        (optional float)
    lambdaRegularizer,  \* RULSIF.lambdaRegularizer (optional float)
    kernelBasis,        \* RULSIF.kernelBasis       (optional int)
    crossFolds,         \* RULSIF.crossFolds        (int)
    gaussianCenters,    \* RULSIF.gaussianCenters   (optional matrix)
    rng,                \* state of the shared numpy.random generator
    trainCalled,        \* whether train has been called on the instance
    last                \* record of the most recent call and what it did

vars == <<alphaConstraint, sigmaWidth, lambdaRegularizer, kernelBasis,
          crossFolds, gaussianCenters, rng, trainCalled, last>>

fitted == <<gaussianCenters, kernelBasis, sigmaWidth, lambdaRegularizer>>

-----------------------------------------------------------------------------
(* Bounds of the model.                                                    *)

MaxCols == 3
MaxFolds == 3
RngStates == 3
MaxWrites == 2
MaxDim == 2
MaxPoints == 2

(* Program constants.                                                      *)

DefaultKernelBasis == 100
SeedState == 0
NumSigma == 5
NumLambda == 5

-----------------------------------------------------------------------------
(* Optional values.                                                        *)

None == <<>>
Some(v) == <<v>>
Val(o) == o[1]

Range(s) == {s[i] : i \in DOMAIN s}

RECURSIVE SumSeq(_)
SumSeq(s) == IF s = <<>> THEN 0 ELSE Head(s) + SumSeq(Tail(s))

RECURSIVE Factorial(_)
Factorial(n) == IF n <= 1 THEN 1 ELSE n * Factorial(n - 1)

(* The sample matrices the calls are given: for every column count in      *)
(* 1..MaxCols, the one-row matrices of evenly spaced samples 0, d, 2d, ... *)
(* for the spacings d of Spacings.                                         *)
Spacings == {1}
Matrices == {[i \in 1..n |-> (i - 1) * d] : n \in 1..MaxCols, d \in Spacings}
OptMatrices == {None} \cup {Some(m) : m \in Matrices}

-----------------------------------------------------------------------------
(* The settings the constructor reads.                                     *)

AlphaSettings == {None, Some(500)}
SigmaSettings == {None, Some(0), Some(1000)}
LambdaSettings == {None, Some(0), Some(100)}
KernelSettings == {None, Some(1), Some(2)}
FoldSettings == {Some(k) : k \in 2..MaxFolds}

(* RULSIF.__init__ : one field from its setting and its default.           *)
InitAlpha(s) == IF s # None THEN Val(s) ELSE 0
InitSigma(s) == IF s # None THEN Some(Val(s)) ELSE None
InitLambda(s) == IF s # None THEN Some(Val(s)) ELSE None
InitKernelBasis(s) == IF s # None THEN Some(Val(s)) ELSE Some(DefaultKernelBasis)
InitCrossFolds(s) == IF s # None THEN Val(s) ELSE 5

NoCall ==
    [op |-> "init", ref |-> None, test |-> None, outcome |-> "none",
     score |-> None, kernelAttempted |-> FALSE, solveAttempted |-> FALSE,
     rngBefore |-> SeedState, refIdxs |-> None, testIdxs |-> None,
     cells |-> {}]

Init ==
    /\ \E s \in AlphaSettings : alphaConstraint = InitAlpha(s)
    /\ \E s \in SigmaSettings : sigmaWidth = InitSigma(s)
    /\ \E s \in LambdaSettings : lambdaRegularizer = InitLambda(s)
    /\ \E s \in KernelSettings : kernelBasis = InitKernelBasis(s)
    /\ \E s \in FoldSettings : crossFolds = InitCrossFolds(s)
    /\ gaussianCenters = None
    /\ rng = SeedState
    /\ trainCalled = FALSE
    /\ last = NoCall

-----------------------------------------------------------------------------
(* The shared generator (numpy.random).  Its state is one of RngStates     *)
(* values; seed(0) puts it in SeedState, and each permutation drawn is     *)
(* decided by the state it is drawn in and moves the generator on.         *)

Advance(g) == (g + 1) % RngStates

RECURSIVE DecodePermutation(_, _)
DecodePermutation(code, items) ==
    IF items = <<>> THEN <<>>
    ELSE LET n == Len(items)
             i == (code % n) + 1
             rest == SubSeq(items, 1, i - 1) \o SubSeq(items, i + 1, n)
         IN  <<items[i]>> \o DecodePermutation(code \div n, rest)

(* numpy.random.permutation(n) drawn in generator state g: a permutation   *)
(* of 0..n-1.                                                              *)
Permutation(g, n) ==
    DecodePermutation((2 * g + 1) % Factorial(n), [i \in 1..n |-> i - 1])

-----------------------------------------------------------------------------
(* Center selection.                                                       *)

(* generateAllGaussianCenters: every reference column is a center and      *)
(* kernelBasis is overwritten with their number.  The result is the pair   *)
(* of the new kernelBasis and the centers.                                 *)
generateAllGaussianCenters(basis, ref) ==
    [kernelBasis |-> Len(ref), centers |-> SubSeq(ref, 1, Len(ref))]

(* generateFirstNGaussianCenters: the first min(kernelBasis, numcols)      *)
(* columns.  Not called by generateGaussianCenters.                        *)
generateFirstNGaussianCenters(basis, ref) ==
    LET numcols == Len(ref)
        n == IF basis < numcols THEN basis ELSE numcols
    IN  [kernelBasis |-> n, centers |-> SubSeq(ref, 1, n)]

(* A center selection that dispatches to the "first N" strategy.           *)
generateGaussianCentersFirstN(basis, ref) ==
    generateFirstNGaussianCenters(basis, ref)

(* generateGaussianCenters: always the "all centers" strategy.             *)
generateGaussianCenters(basis, ref) == generateAllGaussianCenters(basis, ref)

-----------------------------------------------------------------------------
(* Candidate hyper-parameters.                                             *)

(* The integer square root of x, by bisection between lo and hi, where     *)
(* lo * lo <= x < hi * hi.                                                 *)
RECURSIVE IsqrtBetween(_, _, _)
IsqrtBetween(x, lo, hi) ==
    IF hi - lo <= 1 THEN lo
    ELSE LET mid == (lo + hi) \div 2
         IN  IF mid <= x \div mid THEN IsqrtBetween(x, mid, hi)
             ELSE IsqrtBetween(x, lo, mid)

(* The integer square root of x that is at least r.                        *)
Isqrt(x, r) == IsqrtBetween(x, r, x + 1)

RECURSIVE InsertSorted(_, _)
InsertSorted(v, s) ==
    IF s = <<>> THEN <<v>>
    ELSE IF v <= Head(s) THEN <<v>> \o s
    ELSE <<Head(s)>> \o InsertSorted(v, Tail(s))

RECURSIVE SortAscending(_)
SortAscending(s) == IF s = <<>> THEN <<>> ELSE InsertSorted(Head(s), SortAscending(Tail(s)))

(* Twice numpy.median of a non-empty sequence (an integer).                *)
TwiceMedian(s) ==
    LET t == SortAscending(s)
        n == Len(t)
    IN  IF n % 2 = 1 THEN 2 * t[(n + 1) \div 2]
        ELSE t[n \div 2] + t[n \div 2 + 1]

(* getMedianDistanceBetweenSamples(sampleSet) for a sample set of any      *)
(* shape: sampleSet is the sequence of its rows, one sample per row, each  *)
(* a sequence of dim coordinates.                                          *)
(*  - G: the built-in sum(samples * samples, 1) starts from 1 and adds the *)
(*    rows of the squared array, so G has one entry per coordinate,        *)
(*    1 + the sum over the samples of that coordinate squared.             *)
(*  - Q is G tiled to dim x numrows and R is G tiled to numrows x dim;     *)
(*    Q + R broadcasts only when dim = numrows (entry G[i] + G[j]) or      *)
(*    dim = 1 (every entry G[1] + G[1]), and numpy raises ValueError       *)
(*    otherwise.                                                           *)
(*  - The lower triangle and the diagonal are zeroed and the positive      *)
(*    entries kept; the median of none is nan.                             *)
(* The value is sqrt(0.5 * median), in thousandths.                        *)
getMedianDistanceOfSampleSet(sampleSet) ==
    LET numrows == Len(sampleSet)
        dim == Len(sampleSet[1])
        G == [k \in 1..dim |->
                1 + SumSeq([i \in 1..numrows |-> sampleSet[i][k] * sampleSet[i][k]])]
        multiply(i, j) ==
            SumSeq([k \in 1..dim |-> sampleSet[i][k] * sampleSet[j][k]])
        QplusR(i, j) == IF dim = numrows THEN G[i] + G[j] ELSE G[1] + G[1]
        distances(i, j) == QplusR(i, j) - 2 * multiply(i, j)
        pairs == {<<i, j>> \in (1..numrows) \X (1..numrows) :
                     i < j /\ distances(i, j) > 0}
        RECURSIVE Flatten(_)
        Flatten(P) == IF P = {} THEN <<>>
                      ELSE LET p == CHOOSE q \in P : TRUE
                           IN  <<distances(p[1], p[2])>> \o Flatten(P \ {p})
    IN  IF dim # numrows /\ dim # 1
        THEN [outcome |-> "ValueError", value |-> None]
        ELSE IF pairs = {}
        THEN [outcome |-> "nan", value |-> None]
        ELSE [outcome |-> "ok",
              value |-> Some(Isqrt(250000 * TwiceMedian(Flatten(pairs)), 0))]

(* getMedianDistanceBetweenSamples on the transposed one-row matrix, whose *)
(* samples are single numbers: G is the one number 1 + sum of squares and  *)
(* every entry of Q + R is 2G, so every entry above the diagonal is        *)
(* positive.  The result is sqrt(0.5 * median), in thousandths.            *)
getMedianDistanceBetweenSamples(samples) ==
    Val(getMedianDistanceOfSampleSet([i \in 1..Len(samples) |-> <<samples[i]>>]).value)

WidthFactors == <<6, 8, 10, 12, 14>>

(* computeGaussianWidthCandidates: median * [0.6, 0.8, 1, 1.2, 1.4],       *)
(* indexed 0..4.                                                           *)
computeGaussianWidthCandidates(ref, test) ==
    LET medianDistance == getMedianDistanceBetweenSamples(ref \o test)
    IN  [i \in 0..(NumSigma - 1) |-> (medianDistance * WidthFactors[i + 1]) \div 10]

(* computeGaussianWidthCandidates for matrices of any number of rows, each *)
(* given as the sequence of its columns: numpy.c_ puts the test columns    *)
(* after the reference columns and the transpose makes each column a row   *)
(* of the sample set.  An exception of the median propagates; nan times    *)
(* the factors is nan.                                                     *)
computeGaussianWidthCandidatesOfColumns(referenceColumns, testColumns) ==
    LET allSamples == referenceColumns \o testColumns
        medianDistance == getMedianDistanceOfSampleSet(allSamples)
    IN  IF medianDistance.outcome # "ok"
        THEN [outcome |-> medianDistance.outcome, candidates |-> None]
        ELSE [outcome |-> "ok",
              candidates |-> Some(
                 [i \in 0..(NumSigma - 1) |->
                    (Val(medianDistance.value) * WidthFactors[i + 1]) \div 10])]

(* generateRegularizationParams: 10.0 ** [-3, -2, -1, 0, 1], indexed 0..4. *)
generateRegularizationParams ==
    [i \in 0..(NumLambda - 1) |-> <<1, 10, 100, 1000, 10000>>[i + 1]]

-----------------------------------------------------------------------------
(* Fold assignment and the fold's column subsets.                          *)

(* A split that rounds up instead of down.                                 *)
CVSplitCeiling(i, n, folds) == (i * folds + n - 1) \div n

(* numpy.floor(numpy.r_[0:n] * crossFolds / n): the fold of position i.    *)
CVSplit(i, n, folds) == (i * folds) \div n

(* idxs[split != foldIdx]: the columns a fold is fitted on, in order.      *)
TrainingColumns(idxs, folds, foldIdx) ==
    LET n == Len(idxs)
    IN  SelectSeq([i \in 1..n |-> <<i - 1, idxs[i]>>],
                  LAMBDA p : CVSplit(p[1], n, folds) # foldIdx)

(* idxs[split == foldIdx]: the columns a fold holds out, in order.         *)
HeldOutColumns(idxs, folds, foldIdx) ==
    LET n == Len(idxs)
    IN  SelectSeq([i \in 1..n |-> <<i - 1, idxs[i]>>],
                  LAMBDA p : CVSplit(p[1], n, folds) = foldIdx)

Columns(ps) == [i \in 1..Len(ps) |-> ps[i][2]]

-----------------------------------------------------------------------------
(* Selection over the matrix of cross-validation scores, a function        *)
(* scores[sigmaIdx][lambdaIdx] with 0-based indices.                       *)

(* numpy min of a vector.                                                  *)
VecMin(v) == CHOOSE m \in Range(v) : \A i \in DOMAIN v : m <= v[i]

(* An argmin that returns the last index of the minimum.                   *)
ArgMinLast(v) ==
    CHOOSE i \in DOMAIN v :
        /\ \A j \in DOMAIN v : v[i] <= v[j]
        /\ \A j \in DOMAIN v : j > i => v[j] # v[i]

(* numpy argmin of a vector: the first index of its minimum.               *)
ArgMin(v) ==
    CHOOSE i \in DOMAIN v :
        /\ v[i] = VecMin(v)
        /\ \A j \in DOMAIN v : j < i => v[j] # VecMin(v)

(* Lines 374-379: the per-row minima and their lambda indices, then the    *)
(* row whose minimum is smallest.                                          *)
SelectOptimal(scores) ==
    LET crossValidationMinScores == [s \in DOMAIN scores |-> VecMin(scores[s])]
        crossValidationMinIdxForLambda == [s \in DOMAIN scores |-> ArgMin(scores[s])]
        crossValidationMinIdxForSigma == ArgMin(crossValidationMinScores)
    IN  [sigmaIdx |-> crossValidationMinIdxForSigma,
         lambdaIdx |-> crossValidationMinIdxForLambda[crossValidationMinIdxForSigma]]

ZeroScores == [s \in 0..(NumSigma - 1) |-> [l \in 0..(NumLambda - 1) |-> 0]]

-----------------------------------------------------------------------------
(* computeModelParameters(referenceSamples, testSamples, gaussianCenters)  *)
(* in generator state g, for a reference matrix that is present.  The      *)
(* result records how the call ended, the generator state it leaves, the   *)
(* permutations it drew, the score cells it assigned and, when it returns, *)
(* the pair it selected.                                                   *)
computeModelParameters(folds, ref, test, g) ==
    LET failed(kind, g1, ri, ti) ==
            [outcome |-> kind, rng |-> g1, refIdxs |-> ri, testIdxs |-> ti,
             cells |-> {}, optimalSigma |-> None, optimalLambda |-> None]
    IN
    IF test = None
    THEN \* line 314: testSamples.shape on None
         failed("AttributeError", g, None, None)
    ELSE
    LET refCols == Len(ref)
        testCols == Len(Val(test))
        sigmaWidths == computeGaussianWidthCandidates(ref, Val(test))
        lambdaCandidates == generateRegularizationParams
        referenceSamplesCVIdxs == Permutation(g, refCols)
        g1 == Advance(g)
        testSamplesCVIdxs == Permutation(g1, testCols)
        g2 == Advance(g1)
        ri == Some(referenceSamplesCVIdxs)
        ti == Some(testSamplesCVIdxs)
    IN
    IF NumSigma > 0 /\ folds < 0
    THEN \* line 341: numpy.zeros with a negative dimension
         failed("ValueError", g2, ri, ti)
    ELSE IF NumSigma > 0 /\ folds > 0
    THEN \* first sigma, first fold: lines 345-349, then the loop header of
         \* line 351 reads numpy.lambdaCandidates, which numpy does not have
         IF \/ TrainingColumns(referenceSamplesCVIdxs, folds, 0) = <<>>
            \/ TrainingColumns(testSamplesCVIdxs, folds, 0) = <<>>
         THEN \* H_hat, lines 88-89: alpha / N_ref or (1.0 - alpha) / N_test
              failed("ZeroDivisionError", g2, ri, ti)
         ELSE failed("AttributeError", g2, ri, ti)
    ELSE \* no fold body runs: the scores stay numpy.zeros, lines 374-381
         LET sel == SelectOptimal(ZeroScores)
         IN  [outcome |-> "ok", rng |-> g2, refIdxs |-> ri, testIdxs |-> ti,
              cells |-> {},
              optimalSigma |-> Some(sigmaWidths[sel.sigmaIdx]),
              optimalLambda |-> Some(lambdaCandidates[sel.lambdaIdx])]

(* A train that leaves the generator as it finds it.                       *)
UnseededGenerator(g) == g

(* numpy.random.seed(0), line 392: the generator state train starts from.  *)
SeededGenerator(g) == SeedState

(* train(referenceSamples, testSamples).                                   *)
Train(ref, test) ==
    LET g0 == SeededGenerator(rng)
    IN
    /\ trainCalled' = TRUE
    /\ IF ref = None
       THEN \* line 274: referenceSamples.shape on None, before any field is set
            /\ rng' = g0
            /\ last' = [NoCall EXCEPT !.op = "train", !.ref = ref, !.test = test,
                                      !.outcome = "AttributeError", !.rngBefore = rng]
            /\ UNCHANGED <<alphaConstraint, sigmaWidth, lambdaRegularizer,
                           kernelBasis, crossFolds, gaussianCenters>>
       ELSE LET c == generateGaussianCenters(Val(kernelBasis), Val(ref))
                m == computeModelParameters(crossFolds, Val(ref), test, g0)
            IN  /\ kernelBasis' = Some(c.kernelBasis)
                /\ gaussianCenters' = Some(c.centers)
                /\ rng' = m.rng
                /\ IF m.outcome = "ok"
                   THEN /\ sigmaWidth' = m.optimalSigma
                        /\ lambdaRegularizer' = m.optimalLambda
                   ELSE UNCHANGED <<sigmaWidth, lambdaRegularizer>>
                /\ last' = [NoCall EXCEPT !.op = "train", !.ref = ref, !.test = test,
                                          !.outcome = m.outcome, !.rngBefore = rng,
                                          !.refIdxs = m.refIdxs, !.testIdxs = m.testIdxs,
                                          !.cells = m.cells]
                /\ UNCHANGED <<alphaConstraint, crossFolds>>

-----------------------------------------------------------------------------
(* apply.                                                                  *)

(* GaussianKernel(sigma).apply(samples, centers) needs a number for its    *)
(* width and a matrix of centers.                                          *)
GaussianKernelFails(sigma, centers) == sigma = None \/ centers = None

(* PearsonRelativeDivergenceEstimator.apply, which runs                    *)
(* AlphaRelativeDensityRatioEstimator.apply: the two kernel matrices, then *)
(* H_hat, h_hat and theta_hat, whose lambdaRegularizer * numpy.eye(...) is *)
(* evaluated before linalg.solve is called, then the score.  The score is  *)
(* a function of the arguments and of nothing else; it is kept as the term *)
(* of its arguments.                                                       *)
PearsonRelativeDivergence(alpha, sigma, lambda, basis, ref, test, centers) ==
    IF GaussianKernelFails(sigma, centers)
    THEN [outcome |-> "TypeError", score |-> None,
          kernelAttempted |-> TRUE, solveAttempted |-> FALSE]
    ELSE IF lambda = None
    THEN [outcome |-> "TypeError", score |-> None,
          kernelAttempted |-> TRUE, solveAttempted |-> FALSE]
    ELSE [outcome |-> "ok",
          score |-> Some([alpha |-> alpha, sigma |-> Val(sigma),
                          lambda |-> Val(lambda), basis |-> Val(basis),
                          ref |-> ref, test |-> test,
                          centers |-> Val(centers)]),
          kernelAttempted |-> TRUE, solveAttempted |-> TRUE]

(* A check of the basis count alone.                                       *)
MissingBasisCountOnly(centers, basis) == basis = None

(* Line 424.                                                               *)
MissingKernelBasis(centers, basis) == centers = None \/ basis = None

(* Line 427.                                                               *)
MissingModelSelection(sigma, lambda) == sigma = Some(0) \/ lambda = Some(0)

ConfigurationErrors == {"MissingKernelBasis", "MissingModelSelection"}

(* An apply that selects its centers anew from the samples it is given.    *)
ApplyReselectingCenters(ref, test) ==
    LET c == generateAllGaussianCenters(Val(kernelBasis), ref)
        r == IF MissingModelSelection(sigmaWidth, lambdaRegularizer)
             THEN [outcome |-> "MissingModelSelection", score |-> None,
                   kernelAttempted |-> FALSE, solveAttempted |-> FALSE]
             ELSE PearsonRelativeDivergence(alphaConstraint, sigmaWidth,
                      lambdaRegularizer, Some(c.kernelBasis), ref, test,
                      Some(c.centers))
    IN  /\ kernelBasis' = Some(c.kernelBasis)
        /\ gaussianCenters' = Some(c.centers)
        /\ last' = [NoCall EXCEPT !.op = "apply", !.ref = Some(ref),
                                  !.test = Some(test), !.outcome = r.outcome,
                                  !.score = r.score,
                                  !.kernelAttempted = r.kernelAttempted,
                                  !.solveAttempted = r.solveAttempted,
                                  !.rngBefore = rng]
        /\ UNCHANGED <<alphaConstraint, sigmaWidth, lambdaRegularizer,
                       crossFolds, rng, trainCalled>>

(* apply(referenceSamples, testSamples): no field of the instance is       *)
(* assigned.                                                               *)
Apply(ref, test) ==
    LET r == IF MissingKernelBasis(gaussianCenters, kernelBasis)
             THEN [outcome |-> "MissingKernelBasis", score |-> None,
                   kernelAttempted |-> FALSE, solveAttempted |-> FALSE]
             ELSE IF MissingModelSelection(sigmaWidth, lambdaRegularizer)
             THEN [outcome |-> "MissingModelSelection", score |-> None,
                   kernelAttempted |-> FALSE, solveAttempted |-> FALSE]
             ELSE PearsonRelativeDivergence(alphaConstraint, sigmaWidth,
                      lambdaRegularizer, kernelBasis, ref, test,
                      gaussianCenters)
    IN  /\ last' = [NoCall EXCEPT !.op = "apply", !.ref = Some(ref),
                                  !.test = Some(test), !.outcome = r.outcome,
                                  !.score = r.score,
                                  !.kernelAttempted = r.kernelAttempted,
                                  !.solveAttempted = r.solveAttempted,
                                  !.rngBefore = rng]
        /\ UNCHANGED <<alphaConstraint, sigmaWidth, lambdaRegularizer,
                       kernelBasis, crossFolds, gaussianCenters, rng,
                       trainCalled>>

(* Other code of the process draws from the shared generator.              *)
Draw ==
    /\ rng' = Advance(rng)
    /\ UNCHANGED <<alphaConstraint, sigmaWidth, lambdaRegularizer,
                   kernelBasis, crossFolds, gaussianCenters, trainCalled,
                   last>>

TrainCall == \E ref \in OptMatrices, test \in OptMatrices : Train(ref, test)

ApplyCall == \E ref \in Matrices, test \in Matrices : Apply(ref, test)

(* The instance and its two operations.                                    *)
Next == TrainCall \/ ApplyCall

Spec == Init /\ [][Next]_vars

(* train beside other users of the shared generator.                       *)
NextSeed == TrainCall \/ Draw

SpecSeed == Init /\ [][NextSeed]_vars

-----------------------------------------------------------------------------
(* Properties of the instance (Spec).                                      *)

ValidTrainInputs ==
    /\ last.ref # None /\ last.test # None
    /\ Len(Val(last.ref)) >= crossFolds
    /\ Len(Val(last.test)) >= crossFolds

(* C1: whenever apply is called while sigma or lambda is missing or zero,  *)
(* it fails with the configuration error before any kernel evaluation or   *)
(* linear solve, and returns no score.                                     *)
C1_ApplyRejectsMissingOrZero ==
    (/\ last.op = "apply"
     /\ \/ sigmaWidth \in {None, Some(0)}
        \/ lambdaRegularizer \in {None, Some(0)})
    => /\ last.outcome \in ConfigurationErrors
       /\ ~last.kernelAttempted
       /\ ~last.solveAttempted
       /\ last.score = None

(* C2: until train has been called the instance holds no centers, and      *)
(* apply on it fails with the missing-centers configuration error, with no *)
(* kernel evaluated and no score, whatever the configuration.              *)
C2_ApplyBeforeTrainFails ==
    ~trainCalled =>
        /\ gaussianCenters = None
        /\ last.op = "apply" =>
              /\ last.outcome = "MissingKernelBasis"
              /\ ~last.kernelAttempted
              /\ last.score = None

C2_Witness ==
    /\ ~trainCalled
    /\ last.op = "apply"
    /\ sigmaWidth = Some(1000)
    /\ lambdaRegularizer = Some(100)

(* C3: a train call that fails leaves centers, basis count, sigma and      *)
(* lambda exactly as they were before the call.                            *)
C3_FailedTrainWritesNothing ==
    [][(last'.op = "train" /\ last'.outcome # "ok") => fitted' = fitted]_vars

(* C4: a train call on two sample matrices with at least crossFolds        *)
(* columns each ends without error in the fitted state, with sigma one of  *)
(* the five width candidates and lambda one of the five grid values.       *)
C4_TrainCompletes ==
    (last.op = "train" /\ ValidTrainInputs)
    => /\ last.outcome = "ok"
       /\ gaussianCenters # None
       /\ sigmaWidth \in
              {Some(w) : w \in Range(computeGaussianWidthCandidates(
                                        Val(last.ref), Val(last.test)))}
       /\ lambdaRegularizer \in
              {Some(l) : l \in Range(generateRegularizationParams)}

(* C5: an apply call, whether it returns or fails, leaves centers, basis   *)
(* count, sigma, lambda and alpha unchanged, and an apply that follows an  *)
(* apply with the same inputs ends the same way with the same score.       *)
C5_ApplyReadOnly ==
    [][last'.op = "apply" =>
          /\ fitted' = fitted
          /\ alphaConstraint' = alphaConstraint
          /\ (last.op = "apply" /\ last'.ref = last.ref /\ last'.test = last.test)
                => (last'.outcome = last.outcome /\ last'.score = last.score)]_vars

C5_Witness ==
    /\ last.op = "apply"
    /\ last.outcome = "ok"
    /\ last.score # None
    /\ gaussianCenters # None

(* C8: after a train call that reached center selection, the centers are   *)
(* all the reference columns and the basis count is their number, whatever *)
(* basis count was configured; and whenever centers are present the basis  *)
(* count is the number of centers.                                         *)
C8_CentersAreAllReferenceColumns ==
    /\ (last.op = "train" /\ last.ref # None) =>
          /\ gaussianCenters = last.ref
          /\ kernelBasis = Some(Len(Val(last.ref)))
    /\ gaussianCenters # None => kernelBasis = Some(Len(Val(gaussianCenters)))

C8_Witness ==
    /\ last.op = "train"
    /\ last.ref # None
    /\ Len(Val(last.ref)) = MaxCols
    /\ kernelBasis = Some(MaxCols)

(* The cell of the score matrix that cross-validation is to record for one *)
(* (sigma, lambda) pair: for every fold, theta fitted on the columns       *)
(* outside the fold and J evaluated on the columns of the fold.            *)
ExpectedCell(sigmaIdx, lambdaIdx, refIdxs, testIdxs, folds) ==
    [sigmaIdx |-> sigmaIdx, lambdaIdx |-> lambdaIdx,
     folds |-> [f \in 0..(folds - 1) |->
                  [fitRef |-> Columns(TrainingColumns(refIdxs, folds, f)),
                   fitTest |-> Columns(TrainingColumns(testIdxs, folds, f)),
                   heldRef |-> Columns(HeldOutColumns(refIdxs, folds, f)),
                   heldTest |-> Columns(HeldOutColumns(testIdxs, folds, f))]]]

(* C10: cross-validation records, for every (sigma, lambda) pair, the mean *)
(* over all folds of J on the fold's held-out columns with theta fitted on *)
(* the other columns; every cell of the score matrix is filled this way.   *)
C10_EveryCellCrossValidated ==
    (last.op = "train" /\ ValidTrainInputs /\ last.refIdxs # None)
    => last.cells =
          {ExpectedCell(s, l, Val(last.refIdxs), Val(last.testIdxs), crossFolds) :
              s \in 0..(NumSigma - 1), l \in 0..(NumLambda - 1)}

-----------------------------------------------------------------------------
(* Properties of train beside other users of the generator (SpecSeed).     *)

(* C6: what a train call draws and how it ends does not depend on the      *)
(* state the shared generator was in when it was called: from every        *)
(* generator state the same inputs and configuration give the same fold    *)
(* permutations, the same outcome and the same (sigma, lambda).            *)
C6_TrainIndependentOfGenerator ==
    (last.op = "train" /\ last.ref # None) =>
        \A g \in 0..(RngStates - 1) :
            LET m == computeModelParameters(crossFolds, Val(last.ref),
                                            last.test, SeededGenerator(g))
            IN  /\ m.refIdxs = last.refIdxs
                /\ m.testIdxs = last.testIdxs
                /\ m.outcome = last.outcome
                /\ m.outcome = "ok" =>
                      /\ sigmaWidth = m.optimalSigma
                      /\ lambdaRegularizer = m.optimalLambda

C6_Witness ==
    /\ last.op = "train"
    /\ last.rngBefore # SeedState
    /\ last.refIdxs # None
    /\ Len(Val(last.refIdxs)) = MaxCols
    /\ last.testIdxs # None

-----------------------------------------------------------------------------
(* The fold assignment on its own (SpecFold): the two permutations that    *)
(* lines 326 and 328 may draw, for every pair of column counts and every   *)
(* fold count, and the subsets the fold loop takes of them.                *)

AllPermutations(n) ==
    {p \in [1..n -> 0..(n - 1)] : \A i, j \in 1..n : p[i] = p[j] => i = j}

Unconfigured ==
    /\ alphaConstraint = InitAlpha(None)
    /\ sigmaWidth = InitSigma(None)
    /\ lambdaRegularizer = InitLambda(None)
    /\ kernelBasis = InitKernelBasis(None)
    /\ gaussianCenters = None
    /\ rng = SeedState
    /\ trainCalled = FALSE

InitFold ==
    /\ Unconfigured
    /\ \E s \in FoldSettings : crossFolds = InitCrossFolds(s)
    /\ \E refCols \in 1..MaxCols, testCols \in 1..MaxCols :
         \E ri \in AllPermutations(refCols), ti \in AllPermutations(testCols) :
            last = [op |-> "folds", refIdxs |-> ri, testIdxs |-> ti,
                    folds |-> None]

(* Lines 343-346 and 359-360 for every fold of the loop.                   *)
AssignFolds ==
    /\ last.op = "folds"
    /\ last.folds = None
    /\ last' = [last EXCEPT !.folds = Some(
                  [f \in 0..(crossFolds - 1) |->
                     [fitRef |-> Columns(TrainingColumns(last.refIdxs, crossFolds, f)),
                      fitTest |-> Columns(TrainingColumns(last.testIdxs, crossFolds, f)),
                      heldRef |-> Columns(HeldOutColumns(last.refIdxs, crossFolds, f)),
                      heldTest |-> Columns(HeldOutColumns(last.testIdxs, crossFolds, f))]])]
    /\ UNCHANGED <<alphaConstraint, sigmaWidth, lambdaRegularizer, kernelBasis,
                   crossFolds, gaussianCenters, rng, trainCalled>>

NextFold == AssignFolds

SpecFold == InitFold /\ [][NextFold]_vars

(* The folds a sample index is held out in, counted with multiplicity.     *)
FoldsHolding(held, j) ==
    {<<f, i>> \in (DOMAIN held) \X (1..MaxCols) :
        i <= Len(held[f]) /\ held[f][i] = j}

WellSplit(n, held) ==
    /\ DOMAIN held = 0..(crossFolds - 1)
    /\ \A j \in 0..(n - 1) : Cardinality(FoldsHolding(held, j)) = 1
    /\ \A f, h \in DOMAIN held : Len(held[f]) - Len(held[h]) <= 1
    /\ n >= crossFolds => \A f \in DOMAIN held : Len(held[f]) >= 1

(* C9: the fold assignment gives every sample index of the reference set,  *)
(* and every sample index of the test set, exactly one fold id in          *)
(* 0..crossFolds-1; fold sizes differ by at most one; with at least        *)
(* crossFolds samples no fold is empty.                                    *)
C9_FoldAssignmentBalanced ==
    (last.op = "folds" /\ last.folds # None) =>
        LET fs == Val(last.folds)
        IN  /\ WellSplit(Len(last.refIdxs), [f \in DOMAIN fs |-> fs[f].heldRef])
            /\ WellSplit(Len(last.testIdxs), [f \in DOMAIN fs |-> fs[f].heldTest])

C9_Witness ==
    /\ last.op = "folds"
    /\ last.folds # None
    /\ Len(last.refIdxs) = MaxCols
    /\ Len(last.testIdxs) < crossFolds
    /\ last.refIdxs[1] # 0

-----------------------------------------------------------------------------
(* The selection rule on its own (SpecSelect): score matrices grown from   *)
(* the numpy.zeros of line 323 by at most MaxWrites assignments, and the    *)
(* selection of lines 374-379 applied to them.                             *)

ScoreValues == {-1, 1}

InitSelect ==
    /\ Unconfigured
    /\ crossFolds = InitCrossFolds(None)
    /\ last = [op |-> "select", scores |-> ZeroScores, writes |-> 0,
               selected |-> None]

(* crossValidationScores[sigmaIdx, lambdaIdx] = v                          *)
WriteScore(sigmaIdx, lambdaIdx, v) ==
    /\ last.op = "select"
    /\ last.selected = None
    /\ last.writes < MaxWrites
    /\ last' = [last EXCEPT !.scores[sigmaIdx][lambdaIdx] = v,
                            !.writes = last.writes + 1]
    /\ UNCHANGED <<alphaConstraint, sigmaWidth, lambdaRegularizer, kernelBasis,
                   crossFolds, gaussianCenters, rng, trainCalled>>

(* Lines 374-379.                                                          *)
Select ==
    /\ last.op = "select"
    /\ last.selected = None
    /\ last' = [last EXCEPT !.selected = Some(SelectOptimal(last.scores))]
    /\ UNCHANGED <<alphaConstraint, sigmaWidth, lambdaRegularizer, kernelBasis,
                   crossFolds, gaussianCenters, rng, trainCalled>>

WriteAnyScore ==
    \E sigmaIdx \in 0..(NumSigma - 1), lambdaIdx \in 0..(NumLambda - 1),
       v \in ScoreValues : WriteScore(sigmaIdx, lambdaIdx, v)

NextSelect == WriteAnyScore \/ Select

SpecSelect == InitSelect /\ [][NextSelect]_vars

(* C7: the selected cell holds the least score of the whole matrix, and    *)
(* among the cells that hold it, it has the lowest sigma index and, in     *)
(* that row, the lowest lambda index.                                      *)
C7_SelectsFirstGlobalMinimum ==
    (last.op = "select" /\ last.selected # None) =>
        LET sel == Val(last.selected)
            m == last.scores
        IN  \A s \in 0..(NumSigma - 1), l \in 0..(NumLambda - 1) :
               /\ m[sel.sigmaIdx][sel.lambdaIdx] <= m[s][l]
               /\ m[s][l] = m[sel.sigmaIdx][sel.lambdaIdx] =>
                     \/ s > sel.sigmaIdx
                     \/ s = sel.sigmaIdx /\ l >= sel.lambdaIdx

C7_Witness ==
    /\ last.op = "select"
    /\ last.selected # None
    /\ \E s1, s2 \in 0..(NumSigma - 1), l1, l2 \in 0..(NumLambda - 1) :
          /\ s1 < s2 /\ l2 < l1
          /\ last.scores[s1][l1] = -1
          /\ last.scores[s2][l2] = -1
          /\ Val(last.selected) = [sigmaIdx |-> s1, lambdaIdx |-> l1]

-----------------------------------------------------------------------------
(* The width candidates on their own (SpecWidth): reference and test       *)
(* matrices of 1..MaxDim rows and 1..MaxPoints columns each, with entries  *)
(* from Coords, and computeGaussianWidthCandidates applied to them.        *)

Coords == {0, 1, 2}

PointSets(dim) == UNION {[1..n -> [1..dim -> Coords]] : n \in 1..MaxPoints}

InitWidth ==
    /\ Unconfigured
    /\ crossFolds = InitCrossFolds(None)
    /\ \E dim \in 1..MaxDim :
         \E referenceColumns \in PointSets(dim), testColumns \in PointSets(dim) :
            last = [op |-> "widths", ref |-> referenceColumns,
                    test |-> testColumns, result |-> None]

(* Line 316: sigmaWidths = computeGaussianWidthCandidates(ref, test).      *)
ComputeWidths ==
    /\ last.op = "widths"
    /\ last.result = None
    /\ last' = [last EXCEPT !.result =
                  Some(computeGaussianWidthCandidatesOfColumns(last.ref, last.test))]
    /\ UNCHANGED <<alphaConstraint, sigmaWidth, lambdaRegularizer, kernelBasis,
                   crossFolds, gaussianCenters, rng, trainCalled>>

NextWidth == ComputeWidths

SpecWidth == InitWidth /\ [][NextWidth]_vars

(* The squared Euclidean distance of two points.                           *)
SquaredDistance(a, b) ==
    SumSeq([k \in 1..Len(a) |-> (a[k] - b[k]) * (a[k] - b[k])])

(* The squared distances of the unordered pairs of distinct positions of   *)
(* a point set that lie a positive distance apart, each pair once, sorted. *)
PositiveSquaredDistances(points) ==
    LET pairs == {<<i, j>> \in (1..Len(points)) \X (1..Len(points)) :
                     i < j /\ SquaredDistance(points[i], points[j]) > 0}
        RECURSIVE Flatten(_)
        Flatten(P) == IF P = {} THEN <<>>
                      ELSE LET p == CHOOSE q \in P : TRUE
                           IN  <<SquaredDistance(points[p[1]], points[p[2]])>>
                                  \o Flatten(P \ {p})
    IN  SortAscending(Flatten(pairs))

(* The median of the Euclidean distances of a non-empty sorted sequence of *)
(* squared distances, in thousandths.                                      *)
MedianEuclideanDistance(squares) ==
    LET n == Len(squares)
        root(x) == Isqrt(1000000 * x, 0)
    IN  IF n % 2 = 1 THEN root(squares[(n + 1) \div 2])
        ELSE (root(squares[n \div 2]) + root(squares[n \div 2 + 1])) \div 2

(* C11: the width candidates are m * [0.6, 0.8, 1.0, 1.2, 1.4], where m is *)
(* the median of the Euclidean distances over the distinct unordered pairs *)
(* of columns of the combined reference and test set that lie a positive   *)
(* distance apart, for point sets of any dimension and count (to within    *)
(* two thousandths, the rounding of the fixed-point values).               *)
C11_WidthsFromMedianDistance ==
    (/\ last.op = "widths"
     /\ last.result # None
     /\ PositiveSquaredDistances(last.ref \o last.test) # <<>>)
    => LET r == Val(last.result)
           m == MedianEuclideanDistance(
                    PositiveSquaredDistances(last.ref \o last.test))
       IN  /\ r.outcome = "ok"
           /\ \A i \in 0..(NumSigma - 1) :
                 LET expected == (m * WidthFactors[i + 1]) \div 10
                     got == Val(r.candidates)[i]
                 IN  got - expected <= 2 /\ expected - got <= 2

====
